---- MODULE Spec2Model ----
(***************************************************************************)
(* The pbxproj patch scripts of DStudio: add_cost_metrics.py,              *)
(* add_splash_screen.py, add_pipeline.py, add_files_to_project.py and      *)
(* add_to_build_phase.py.  Each script reads project.pbxproj, applies a    *)
(* fixed sequence of re.sub calls and writes the result back.              *)
(*                                                                         *)
(* The manifest text is modelled as the sequence of its words: a comment   *)
(* "/* x */" is one word, every other word is a maximal run of characters  *)
(* without white space.  So "fileRef = 1A00004A /* X */; };" is the five   *)
(* words  fileRef  =  1A00004A  /* X */  ;  };  while the same record      *)
(* closed by ";};" ends in the single word ";};".  White space itself is   *)
(* not kept: where a pattern says \s* the manifests considered here have   *)
(* at least one blank or newline, as Xcode writes them.                    *)
(***************************************************************************)
EXTENDS Integers, Sequences, FiniteSets, TLC

VARIABLES disk, orig, hist, last

vars == <<disk, orig, hist, last>>

(***************************************************************************)
(* Bounds.                                                                 *)
(***************************************************************************)
MaxRuns == 2

(***************************************************************************)
(* Words of the manifest.                                                  *)
(***************************************************************************)
W(s) == [k |-> "w", v |-> s]
Id(s) == [k |-> "id", v |-> s]
Cm(s) == [k |-> "c", v |-> s]
PathWord(p, q) == [k |-> "p", p |-> p, q |-> q]

HasRBrace(t) == t.k = "w" /\ t.v \in {"}", "};", ";};"}
HasLBrace(t) == t.k = "w" /\ t.v \in {"{", "{isa"}
HasRParen(t) == t.k = "w" /\ t.v \in {")", ");"}
HasLParen(t) == t.k = "w" /\ t.v \in {"("}

Begin(sec) == Cm("Begin " \o sec \o " section")
End(sec) == Cm("End " \o sec \o " section")

InSources(file_name) == file_name \o " in Sources"

(***************************************************************************)
(* Identifier allocation:                                                  *)
(*   str(uuid.uuid4()).replace('-', '').upper()[:24]  and then  [:6].      *)
(* The six hex digits are random; a run that draws n identifiers takes one *)
(* of the tuples of Draws(n): n different values, or n times the same      *)
(* value, as the DrawPlans say.                                            *)
(***************************************************************************)
HexPool == <<"2835AC", "283F20", "E67026", "C6ABE6", "760A32",
             "0B51D4", "9F1E07", "44C2A8", "D3905B", "5A7E61">>

\* <<first index - 1, step>>: all different from the first value of the pool,
\* all different from the second, all equal
DrawPlans == { <<0, 1>>, <<1, 1>>, <<0, 0>> }

uuid6(b, s, i) == HexPool[((b + s * (i - 1)) % Len(HexPool)) + 1]

Draws(n) == { [i \in 1..n |-> uuid6(pl[1], pl[2], i)] : pl \in DrawPlans }

NewId(u) == "1A0000" \o u

(***************************************************************************)
(* The texts the scripts insert.                                           *)
(***************************************************************************)
\* 1A0000<u> /* name */ = {isa = PBXFileReference; lastKnownFileType =
\* sourcecode.swift; path = <path>; sourceTree = "<group>"; };
file_ref(u, file_name, path) ==
    << Id(NewId(u)), Cm(file_name), W("="), W("{isa"), W("="),
       W("PBXFileReference;"), W("lastKnownFileType"), W("="),
       W("sourcecode.swift;"), W("path"), W("="), path,
       W("sourceTree"), W("="), W("\"<group>\";"), W("};") >>

\* 1A0000<bu> /* name in Sources */ = {isa = PBXBuildFile; fileRef = <ref>
\* /* name */; };
build_file(bu, file_name, file_ref_id) ==
    << Id(NewId(bu)), Cm(InSources(file_name)), W("="), W("{isa"), W("="),
       W("PBXBuildFile;"), W("fileRef"), W("="), Id(file_ref_id),
       Cm(file_name), W(";"), W("};") >>

\* 1A0000<u> /* label */,
list_entry(u, label) == << Id(NewId(u)), Cm(label), W(",") >>

(***************************************************************************)
(* Patterns.  A pattern is one of                                          *)
(*   lit       a fixed sequence of words;                                  *)
(*   rec19     1A000019 /\* [^*]+ \*/ = \{isa = PBXBuildFile; fileRef =    *)
(*             [^}]+;\};                                                   *)
(*   children  <id> /\* <label> \*/ = \{[^}]+children = \([^)]+)([^)]+)\); *)
(***************************************************************************)
Lit(toks) == [kind |-> "lit", toks |-> toks]

Min(S) == CHOOSE x \in S : \A y \in S : x <= y
Max(S) == CHOOSE x \in S : \A y \in S : y <= x

\* position of the first word from position j on that has a "}" / a ")"
FirstRBrace(c, j) ==
    LET R == { x \in j..Len(c) : HasRBrace(c[x]) }
    IN  IF R = {} THEN Len(c) + 1 ELSE Min(R)

FirstRParen(c, j) ==
    LET R == { x \in j..Len(c) : HasRParen(c[x]) }
    IN  IF R = {} THEN Len(c) + 1 ELSE Min(R)

IsAt(c, i, toks) ==
    /\ i >= 1
    /\ i + Len(toks) - 1 <= Len(c)
    /\ \A j \in 1..Len(toks) : c[i + j - 1] = toks[j]

\* length of the match of the rec19 pattern that starts at word i, or 0
MatchRec19(c, i) ==
    IF /\ i + 9 <= Len(c)
       /\ c[i] = Id("1A000019")
       /\ c[i + 1].k = "c"
       /\ IsAt(c, i + 2, << W("="), W("{isa"), W("="), W("PBXBuildFile;"),
                            W("fileRef"), W("=") >>)
    THEN LET e == FirstRBrace(c, i + 8)
         IN  IF e <= Len(c) /\ e > i + 8 /\ c[e] = W(";};")
             THEN e - i + 1 ELSE 0
    ELSE 0

\* length of the match of a children pattern that starts at word i, or 0
MatchChildren(id, label, c, i) ==
    IF /\ i + 3 <= Len(c)
       /\ c[i] = Id(id)
       /\ c[i + 1] = Cm(label)
       /\ c[i + 2] = W("=")
       /\ HasLBrace(c[i + 3])
    THEN LET rb == FirstRBrace(c, i + 4)
             Ps == { p \in (i + 4)..(rb - 3) :
                       /\ IsAt(c, p, << W("children"), W("="), W("(") >>)
                       /\ FirstRParen(c, p + 3) <= Len(c)
                       /\ c[FirstRParen(c, p + 3)] = W(");") }
         IN  IF Ps = {} THEN 0 ELSE FirstRParen(c, Max(Ps) + 3) - i + 1
    ELSE 0

MatchLen(pat, c, i) ==
    CASE pat.kind = "lit" -> IF IsAt(c, i, pat.toks) THEN Len(pat.toks) ELSE 0
      [] pat.kind = "rec19" -> MatchRec19(c, i)
      [] pat.kind = "children" -> MatchChildren(pat.id, pat.label, c, i)

Starts(pat, c) == { i \in 1..Len(c) : MatchLen(pat, c, i) > 0 }

\* re.search(pat, c) is not None
Found(pat, c) == Starts(pat, c) # {}

(***************************************************************************)
(* Replacement templates: refs says which part of the match the template   *)
(* copies before its own text ("none", "whole" for \1 of a pattern that is *)
(* one group, "front" for \1\2 of a children pattern, i.e. the match       *)
(* without its final ");").                                                *)
(***************************************************************************)
Expand(repl, m) ==
    CASE repl.refs = "none" -> repl.tail
      [] repl.refs = "whole" -> m \o repl.tail
      [] repl.refs = "front" -> SubSeq(m, 1, Len(m) - 1) \o repl.tail

RECURSIVE SubFrom(_, _, _, _, _)
SubFrom(pat, repl, c, cands, from) ==
    LET rest == { i \in cands : i >= from }
    IN  IF rest = {}
        THEN SubSeq(c, from, Len(c))
        ELSE LET m == Min(rest)
                 n == MatchLen(pat, c, m)
             IN  SubSeq(c, from, m - 1)
                   \o Expand(repl, SubSeq(c, m, m + n - 1))
                   \o SubFrom(pat, repl, c, cands, m + n)

\* re.sub(pat, repl, c): every non-overlapping match, leftmost first
re_sub(pat, repl, c) == SubFrom(pat, repl, c, Starts(pat, c), 1)

(***************************************************************************)
(* The manifest the scripts read: project.pbxproj as Xcode writes it, with *)
(* the records the scripts' patterns name.  tight says whether PBXBuildFile*)
(* records are closed by ";};" instead of "; };"; layout "A" is the project*)
(* add_files_to_project.py was written for (1A000053 is Modules), layout   *)
(* "B" the one of the later scripts (1A000053 is Components, 1A000056 is   *)
(* Modules); endRef says whether the End PBXFileReference line is there.   *)
(***************************************************************************)
XcBuildFile(id, file_name, ref, tight) ==
    << Id(id), Cm(InSources(file_name)), W("="), W("{isa"), W("="),
       W("PBXBuildFile;"), W("fileRef"), W("="), Id(ref), Cm(file_name) >>
      \o (IF tight THEN << W(";};") >> ELSE << W(";"), W("};") >>)

XcFileRef(id, file_name) ==
    << Id(id), Cm(file_name), W("="), W("{isa"), W("="),
       W("PBXFileReference;"), W("lastKnownFileType"), W("="),
       W("sourcecode.swift;"), W("path"), W("="),
       PathWord(<< file_name >>, FALSE),
       W("sourceTree"), W("="), W("\"<group>\";"), W("};") >>

XcEntry(id, label) == << Id(id), Cm(label), W(",") >>

XcGroup(id, label, children) ==
    << Id(id), Cm(label), W("="), W("{"), W("isa"), W("="), W("PBXGroup;"),
       W("children"), W("="), W("(") >>
      \o children
      \o << W(");"), W("sourceTree"), W("="), W("\"<group>\";"), W("};") >>

XcSources(files) ==
    << Id("1A000064"), Cm("Sources"), W("="), W("{"), W("isa"), W("="),
       W("PBXSourcesBuildPhase;"), W("buildActionMask"), W("="),
       W("2147483647;"), W("files"), W("="), W("(") >>
      \o files
      \o << W(");"), W("runOnlyForDeploymentPostprocessing"), W("="),
            W("0;"), W("};") >>

Manifest(layout, tight, endRef) ==
    << Begin("PBXBuildFile") >>
      \o XcBuildFile("1A000003", "ContentView.swift", "1A000033", tight)
      \o XcBuildFile("1A000019", "SceneCard.swift", "1A000035", tight)
      \o << End("PBXBuildFile"), Begin("PBXFileReference") >>
      \o XcFileRef("1A000033", "ContentView.swift")
      \o XcFileRef("1A000035", "SceneCard.swift")
      \o XcFileRef("1A00007D", "StoreManager.swift")
      \o XcFileRef("1A00007F", "ContinuityEngine.swift")
      \o (IF endRef THEN << End("PBXFileReference") >> ELSE << >>)
      \o << Begin("PBXGroup") >>
      \o (IF layout = "A"
          THEN XcGroup("1A000052", "Core",
                       XcEntry("1A000033", "ContentView.swift")
                         \o XcEntry("1A000035", "SceneCard.swift"))
                 \o XcGroup("1A000053", "Modules",
                            XcEntry("1A00007F", "ContinuityEngine.swift")
                              \o XcEntry("1A00007D", "StoreManager.swift"))
          ELSE XcGroup("1A000052", "Core",
                       XcEntry("1A000033", "ContentView.swift"))
                 \o XcGroup("1A000053", "Components",
                            XcEntry("1A000035", "SceneCard.swift"))
                 \o XcGroup("1A000055", "Services",
                            XcEntry("1A00007D", "StoreManager.swift"))
                 \o XcGroup("1A000056", "Modules",
                            XcEntry("1A00007F", "ContinuityEngine.swift")))
      \o << End("PBXGroup"), Begin("PBXSourcesBuildPhase") >>
      \o XcSources(XcEntry("1A000003", InSources("ContentView.swift"))
                     \o XcEntry("1A000019", InSources("SceneCard.swift")))
      \o << End("PBXSourcesBuildPhase") >>

Manifests == { Manifest("A", TRUE, TRUE), Manifest("B", TRUE, TRUE),
               Manifest("B", FALSE, TRUE), Manifest("B", TRUE, FALSE) }

(***************************************************************************)
(* One statement  content = re.sub(pattern, replacement, content) : the    *)
(* new content, and whether the pattern was found (for the record of the   *)
(* run; the scripts themselves never look).                                *)
(***************************************************************************)
Start(c) == [c |-> c, matched |-> << >>]

Apply(st, pat, repl) ==
    [c |-> re_sub(pat, repl, st.c),
     matched |-> Append(st.matched, Found(pat, st.c))]

\* r'(/\* End <sec> section \*/)'  and  <text> + r'\n\n/* End <sec> section */'
end_section_pattern(sec) == Lit(<< End(sec) >>)
\* (the replacement without the End line)
end_section_replacement_no_end(text, sec) == [refs |-> "none", tail |-> text]
end_section_replacement(text, sec) ==
    [refs |-> "none", tail |-> text \o << End(sec) >>]

\* r'(<gid> /\* <label> \*/ = \{\s*isa = PBXGroup;\s*children = \(\s*<id>
\*   /\* <first> \*/,)'
group_anchor_pattern(gid, label, first_id, first_label) ==
    Lit(<< Id(gid), Cm(label), W("="), W("{"), W("isa"), W("="),
           W("PBXGroup;"), W("children"), W("="), W("("),
           Id(first_id), Cm(first_label), W(",") >>)

\* r'(1A000064 /\* Sources \*/ = \{\s*isa = PBXSourcesBuildPhase;\s*
\*   buildActionMask = 2147483647;\s*files = \(\s*1A000003
\*   /\* ContentView\.swift in Sources \*/,)'
sources_pattern ==
    Lit(<< Id("1A000064"), Cm("Sources"), W("="), W("{"), W("isa"), W("="),
           W("PBXSourcesBuildPhase;"), W("buildActionMask"), W("="),
           W("2147483647;"), W("files"), W("="), W("("),
           Id("1A000003"), Cm(InSources("ContentView.swift")), W(",") >>)

\* r'\1\n\t\t\t1A0000' + uuid[:6] + ' /* <label> */,'
\* (the replacement without \1)
after_anchor_replacement_no_ref(u, label) ==
    [refs |-> "none", tail |-> list_entry(u, label)]
after_anchor_replacement(u, label) ==
    [refs |-> "whole", tail |-> list_entry(u, label)]

\* r'(1A000019 /\* [^*]+ \*/ = \{isa = PBXBuildFile; fileRef = [^}]+;\};)'
rec19_pattern == [kind |-> "rec19"]

\* r'\1' + <text>
after_rec19_replacement(text) == [refs |-> "whole", tail |-> text]

(***************************************************************************)
(* add_cost_metrics.py                                                     *)
(***************************************************************************)
add_cost_metrics(content, cost_uuid, cost_build_uuid) ==
    LET name == "CostMetricsManager.swift"
        s1 == Apply(Start(content),
                    group_anchor_pattern("1A000055", "Services",
                                         "1A00007D", "StoreManager.swift"),
                    after_anchor_replacement(cost_uuid, name))
        s2 == Apply(s1, end_section_pattern("PBXFileReference"),
                    end_section_replacement(
                        file_ref(cost_uuid, name, PathWord(<< name >>, FALSE)),
                        "PBXFileReference"))
        s3 == Apply(s2, sources_pattern,
                    after_anchor_replacement(cost_build_uuid, InSources(name)))
        s4 == Apply(s3, end_section_pattern("PBXBuildFile"),
                    end_section_replacement(
                        build_file(cost_build_uuid, name, NewId(cost_uuid)),
                        "PBXBuildFile"))
    IN  s4

(***************************************************************************)
(* add_splash_screen.py                                                    *)
(***************************************************************************)
add_splash_screen(content, splash_uuid, splash_build_uuid) ==
    LET name == "SplashScreenView.swift"
        path == PathWord(<< "DirectorStudio", "Components", name >>, TRUE)
        s1 == Apply(Start(content),
                    group_anchor_pattern("1A000053", "Components",
                                         "1A000035", "SceneCard.swift"),
                    after_anchor_replacement(splash_uuid, name))
        s2 == Apply(s1, end_section_pattern("PBXFileReference"),
                    end_section_replacement(file_ref(splash_uuid, name, path),
                                            "PBXFileReference"))
        s3 == Apply(s2, sources_pattern,
                    after_anchor_replacement(splash_build_uuid,
                                             InSources(name)))
        s4 == Apply(s3, end_section_pattern("PBXBuildFile"),
                    end_section_replacement(
                        build_file(splash_build_uuid, name, NewId(splash_uuid)),
                        "PBXBuildFile"))
    IN  s4

(***************************************************************************)
(* add_pipeline.py                                                         *)
(***************************************************************************)
add_pipeline(content, pipeline_uuid, pipeline_build_uuid) ==
    LET name == "DirectorStudioPipeline.swift"
        s1 == Apply(Start(content),
                    group_anchor_pattern("1A000056", "Modules",
                                         "1A00007F", "ContinuityEngine.swift"),
                    after_anchor_replacement(pipeline_uuid, name))
        s2 == Apply(s1, end_section_pattern("PBXFileReference"),
                    end_section_replacement(
                        file_ref(pipeline_uuid, name,
                                 PathWord(<< name >>, FALSE)),
                        "PBXFileReference"))
        s3 == Apply(s2, rec19_pattern,
                    after_rec19_replacement(
                        build_file(pipeline_build_uuid, name,
                                   NewId(pipeline_uuid))))
    IN  s3

(***************************************************************************)
(* add_files_to_project.py.  A path is the sequence of its components, so  *)
(* file_path.split('/')[-1] is the last of them.                           *)
(***************************************************************************)
files_to_add ==
    << << "DirectorStudio", "Core", "Models.swift" >>,
       << "DirectorStudio", "Modules", "StoryAnalyzerModule.swift" >>,
       << "DirectorStudio", "Modules", "PromptSegmentationModule.swift" >>,
       << "DirectorStudio", "Modules", "PromptPackagingModule.swift" >> >>

core_group_pattern == [kind |-> "children", id |-> "1A000052", label |-> "Core"]
modules_group_pattern ==
    [kind |-> "children", id |-> "1A000053", label |-> "Modules"]

\* r'\1\2		1A0000' + uuid[:6] + ' /* <file_name> */,\n		);'
core_replacement(u, file_name) ==
    [refs |-> "front", tail |-> list_entry(u, file_name) \o << W(");") >>]

\* the three re.sub calls for one file: group, build file, file reference
add_one_file(st, group_pattern, file_name, u, bu) ==
    LET s1 == Apply(st, group_pattern, core_replacement(u, file_name))
        s2 == Apply(s1, rec19_pattern,
                    after_rec19_replacement(
                        build_file(bu, file_name, NewId(u))))
        s3 == Apply(s2, rec19_pattern,
                    after_rec19_replacement(
                        file_ref(u, file_name,
                                 PathWord(<< file_name >>, FALSE))))
    IN  s3

\* for i, file_path in enumerate(files_to_add[1:], 1)
RECURSIVE modules_loop(_, _, _)
modules_loop(st, i, d) ==
    IF i >= Len(files_to_add)
    THEN st
    ELSE LET file_path == files_to_add[i + 1]
             file_name == file_path[Len(file_path)]
         IN  modules_loop(add_one_file(st, modules_group_pattern, file_name,
                                       d[2 * i + 1], d[2 * i + 2]),
                          i + 1, d)

add_files_to_project(content, d) ==
    modules_loop(add_one_file(Start(content), core_group_pattern,
                              "Models.swift", d[1], d[2]),
                 1, d)

(***************************************************************************)
(* add_to_build_phase.py                                                   *)
(***************************************************************************)
build_phase_files ==
    << << "Models.swift", "1A00002835AC" >>,
       << "DirectorStudioPipeline.swift", "1A0000283F20" >>,
       << "StoryAnalyzerModule.swift", "1A0000E67026" >>,
       << "PromptSegmentationModule.swift", "1A0000C6ABE6" >>,
       << "PromptPackagingModule.swift", "1A0000760A32" >> >>

RECURSIVE build_phase_loop(_, _, _)
build_phase_loop(st, i, d) ==
    IF i > Len(build_phase_files)
    THEN st
    ELSE LET file_name == build_phase_files[i][1]
             file_ref_id == build_phase_files[i][2]
             build_uuid == d[i]
             s1 == Apply(st, sources_pattern,
                         after_anchor_replacement(build_uuid,
                                                  InSources(file_name)))
             s2 == Apply(s1, end_section_pattern("PBXBuildFile"),
                         end_section_replacement(
                             build_file(build_uuid, file_name, file_ref_id),
                             "PBXBuildFile"))
         IN  build_phase_loop(s2, i + 1, d)

add_to_build_phase(content, d) == build_phase_loop(Start(content), 1, d)

(***************************************************************************)
(* The state: the manifest on disk, the manifest before the first run, the *)
(* scripts run so far, and a record of the last run (the content it read   *)
(* and, per re.sub call, whether its pattern was found).                   *)
(***************************************************************************)
Init ==
    /\ disk \in Manifests
    /\ orig = disk
    /\ hist = << >>
    /\ last = [script |-> "none", before |-> disk, matched |-> << >>]

\* content = f.read(); ...; f.write(content)
Run(script, st) ==
    /\ disk' = st.c
    /\ hist' = Append(hist, script)
    /\ last' = [script |-> script, before |-> disk, matched |-> st.matched]
    /\ UNCHANGED orig

AddCostMetrics ==
    /\ Len(hist) < MaxRuns
    /\ \E d \in Draws(2) :
         Run("add_cost_metrics", add_cost_metrics(disk, d[1], d[2]))

AddSplashScreen ==
    /\ Len(hist) < MaxRuns
    /\ \E d \in Draws(2) :
         Run("add_splash_screen", add_splash_screen(disk, d[1], d[2]))

AddPipeline ==
    /\ Len(hist) < MaxRuns
    /\ \E d \in Draws(2) :
         Run("add_pipeline", add_pipeline(disk, d[1], d[2]))

AddFilesToProject ==
    /\ Len(hist) < MaxRuns
    /\ \E d \in Draws(2 * Len(files_to_add)) :
         Run("add_files_to_project", add_files_to_project(disk, d))

AddToBuildPhase ==
    /\ Len(hist) < MaxRuns
    /\ \E d \in Draws(Len(build_phase_files)) :
         Run("add_to_build_phase", add_to_build_phase(disk, d))

Next ==
    \/ AddCostMetrics
    \/ AddSplashScreen
    \/ AddPipeline
    \/ AddFilesToProject
    \/ AddToBuildPhase

Spec == Init /\ [][Next]_vars

(***************************************************************************)
(* Reading a manifest.                                                     *)
(***************************************************************************)
Count(c, t) == Cardinality({ i \in 1..Len(c) : c[i] = t })

\* a record  <id> /* label */ = { ...  starts at word i
RecAt(c, i) ==
    /\ i + 5 <= Len(c)
    /\ c[i].k = "id"
    /\ c[i + 1].k = "c"
    /\ c[i + 2] = W("=")
    /\ HasLBrace(c[i + 3])

Recs(c) == { i \in 1..Len(c) : RecAt(c, i) }

FileRefs(c) ==
    { i \in Recs(c) : c[i + 3] = W("{isa") /\ c[i + 5] = W("PBXFileReference;") }

BuildFiles(c) ==
    { i \in Recs(c) : c[i + 3] = W("{isa") /\ c[i + 5] = W("PBXBuildFile;") }

\* the records with a children or files list
Lists(c) == { i \in Recs(c) : c[i + 3] = W("{") }

\* an entry  <id> /* label */,  of a list starts at word i
EntryAt(c, i) ==
    /\ i + 2 <= Len(c)
    /\ c[i].k = "id"
    /\ c[i + 1].k = "c"
    /\ c[i + 2] = W(",")

EntriesFor(c, label) == { i \in 1..Len(c) : EntryAt(c, i) /\ c[i + 1] = Cm(label) }

FileRefsFor(c, file_name) == { i \in FileRefs(c) : c[i + 1] = Cm(file_name) }

BuildFilesFor(c, file_name) ==
    { i \in BuildFiles(c) : c[i + 1] = Cm(InSources(file_name)) }

\* the path field of the file reference at i, the fileRef of the build file at i
PathOf(c, i) == c[i + 11].p
FileRefOf(c, i) == c[i + 8].v

\* the entries of the list of the record at i, each as its three words
Entries(c, i) ==
    LET lp == Min({ j \in i..Len(c) : HasLParen(c[j]) })
        rp == FirstRParen(c, lp)
    IN  [n \in 1..((rp - lp - 1) \div 3) |->
            SubSeq(c, lp + 3 * n - 2, lp + 3 * n)]

RECURSIVE IsSubseq(_, _)
IsSubseq(a, b) ==
    IF a = << >> THEN TRUE
    ELSE IF b = << >> THEN FALSE
    ELSE IF Head(a) = Head(b) THEN IsSubseq(Tail(a), Tail(b))
    ELSE IsSubseq(a, Tail(b))

Sections == { "PBXBuildFile", "PBXFileReference", "PBXGroup",
              "PBXSourcesBuildPhase" }

\* the section word i lies in: the one of the last Begin line before it
SectionAt(c, i) ==
    LET marks == { j \in 1..(i - 1) :
                     \E sec \in Sections : c[j] \in { Begin(sec), End(sec) } }
    IN  IF marks = {} THEN "none"
        ELSE LET m == Max(marks)
             IN  IF \E sec \in Sections : c[m] = Begin(sec)
                 THEN CHOOSE sec \in Sections : c[m] = Begin(sec)
                 ELSE "none"

Balanced(c) ==
    /\ Cardinality({ i \in 1..Len(c) : HasLBrace(c[i]) })
         = Cardinality({ i \in 1..Len(c) : HasRBrace(c[i]) })
    /\ Cardinality({ i \in 1..Len(c) : HasLParen(c[i]) })
         = Cardinality({ i \in 1..Len(c) : HasRParen(c[i]) })

\* the files a script adds, by display name
FilesOf(script) ==
    CASE script = "add_cost_metrics" -> { "CostMetricsManager.swift" }
      [] script = "add_splash_screen" -> { "SplashScreenView.swift" }
      [] script = "add_pipeline" -> { "DirectorStudioPipeline.swift" }
      [] script = "add_files_to_project" ->
           { files_to_add[i][Len(files_to_add[i])] : i \in DOMAIN files_to_add }
      [] script = "add_to_build_phase" ->
           { build_phase_files[i][1] : i \in DOMAIN build_phase_files }
      [] OTHER -> {}

AllMatched == \A i \in DOMAIN last.matched : last.matched[i]

AddFileScripts ==
    { "add_cost_metrics", "add_splash_screen", "add_pipeline",
      "add_files_to_project" }
FourAnchorScripts == { "add_cost_metrics", "add_splash_screen" }
BatchScripts == { "add_files_to_project", "add_to_build_phase" }

\* what each script is asked to add: display name and relative path
Descriptors ==
    { [name |-> "CostMetricsManager.swift",
       path |-> << "CostMetricsManager.swift" >>],
      [name |-> "SplashScreenView.swift",
       path |-> << "DirectorStudio", "Components", "SplashScreenView.swift" >>],
      [name |-> "DirectorStudioPipeline.swift",
       path |-> << "DirectorStudioPipeline.swift" >>] }
    \cup { [name |-> files_to_add[i][Len(files_to_add[i])],
            path |-> files_to_add[i]] : i \in DOMAIN files_to_add }

(***************************************************************************)
(* Properties.                                                             *)
(***************************************************************************)

\* C1: after the first run of add_cost_metrics, add_splash_screen,
\* add_pipeline or add_files_to_project on a manifest in which every pattern
\* of the script matched, the manifest has, for each file of the script,
\* exactly one file reference, one build file, one group child and one
\* sources child, with consistent identifiers.
C1_OneSetOfEntries ==
    (Len(hist) = 1 /\ hist[1] \in AddFileScripts /\ AllMatched) =>
      \A x \in FilesOf(hist[1]) :
        \E r \in FileRefsFor(disk, x), b \in BuildFilesFor(disk, x),
           g \in EntriesFor(disk, x), f \in EntriesFor(disk, InSources(x)) :
            /\ FileRefsFor(disk, x) = { r }
            /\ BuildFilesFor(disk, x) = { b }
            /\ EntriesFor(disk, x) = { g }
            /\ EntriesFor(disk, InSources(x)) = { f }
            /\ FileRefOf(disk, b) = disk[r].v
            /\ disk[g].v = disk[r].v
            /\ disk[f].v = disk[b].v

\* C2: after the same script has run twice in a row, the manifest has no
\* duplicate entry for any file of the script: at most one file reference,
\* one build file, one group child and one sources child.
C2_TwiceIsIdempotent ==
    (Len(hist) = 2 /\ hist[1] = hist[2]) =>
      \A x \in FilesOf(hist[2]) :
        /\ Cardinality(FileRefsFor(disk, x)) <= 1
        /\ Cardinality(BuildFilesFor(disk, x)) <= 1
        /\ Cardinality(EntriesFor(disk, x)) <= 1
        /\ Cardinality(EntriesFor(disk, InSources(x))) <= 1

\* C3: the identifiers of the records of the manifest are pairwise distinct.
C3_IdentifiersDistinct ==
    \A i, j \in Recs(disk) : i # j => disk[i].v # disk[j].v

\* C4: a run of add_cost_metrics or add_splash_screen in which one of the
\* four patterns did not match leaves the manifest as it was.
C4_AbsentAnchorLeavesManifest ==
    (last.script \in FourAnchorScripts /\ ~AllMatched) => disk = last.before

\* C5: a run of a batch script (add_files_to_project, add_to_build_phase) in
\* which some pattern of some file did not match writes nothing: the manifest
\* on disk is as it was.
C5_BatchWritesAllOrNothing ==
    (last.script \in BatchScripts /\ ~AllMatched) => disk = last.before

\* C6: the fileRef of every PBXBuildFile record names a PBXFileReference
\* record of the manifest.
C6_BuildFileHasFileRef ==
    \A b \in BuildFiles(disk) :
      \E r \in FileRefs(disk) : disk[r].v = FileRefOf(disk, b)

\* C7: every children or files list of the original manifest is still there,
\* its original entries are untouched and in their original order, and its
\* first entry is still its first entry.
C7_ListsKeepEntriesAndHead ==
    \A i \in Lists(orig) :
      \E j \in Lists(disk) :
        /\ disk[j] = orig[i]
        /\ IsSubseq(Entries(orig, i), Entries(disk, j))
        /\ Entries(orig, i) # << >> =>
             /\ Entries(disk, j) # << >>
             /\ Entries(disk, j)[1] = Entries(orig, i)[1]

\* a list that had two entries has got more, by an insertion after its first
\* entry or at its end
C7_Witness ==
    \E i \in Lists(orig), j \in Lists(disk) :
      /\ disk[j] = orig[i]
      /\ Len(Entries(orig, i)) >= 2
      /\ Len(Entries(disk, j)) > Len(Entries(orig, i))

\* C8: the End PBXFileReference and End PBXBuildFile lines occur as often as
\* in the original manifest, no brace or parenthesis has been removed, and
\* braces and parentheses are balanced.
C8_SentinelsAndBalance ==
    /\ \A sec \in { "PBXFileReference", "PBXBuildFile" } :
         Count(disk, End(sec)) = Count(orig, End(sec))
    /\ Cardinality({ i \in 1..Len(disk) : HasLBrace(disk[i]) })
         >= Cardinality({ i \in 1..Len(orig) : HasLBrace(orig[i]) })
    /\ Cardinality({ i \in 1..Len(disk) : HasLParen(disk[i]) })
         >= Cardinality({ i \in 1..Len(orig) : HasLParen(orig[i]) })
    /\ Balanced(orig) => Balanced(disk)

\* add_cost_metrics has inserted a record before each of the two End lines
C8_Witness ==
    /\ last.script = "add_cost_metrics"
    /\ AllMatched
    /\ Balanced(orig)
    /\ Cardinality(FileRefs(disk)) > Cardinality(FileRefs(last.before))
    /\ Cardinality(BuildFiles(disk)) > Cardinality(BuildFiles(last.before))

\* C9: the file reference record of every file a script adds carries the
\* descriptor's relative path in its path field.
C9_PathRoundTrip ==
    \A d \in Descriptors :
      \A r \in FileRefsFor(disk, d.name) : PathOf(disk, r) = d.path

\* C10: every PBXFileReference record lies in the PBXFileReference section
\* and every PBXBuildFile record in the PBXBuildFile section.
C10_RecordsInOwnSection ==
    /\ \A r \in FileRefs(disk) : SectionAt(disk, r) = "PBXFileReference"
    /\ \A b \in BuildFiles(disk) : SectionAt(disk, b) = "PBXBuildFile"

====
